---- MODULE Spec2Model ----
(***************************************************************************)
(* Model of digest_to_audio.py: the turn parser parse_script_to_turns, the *)
(* text helpers it and the rewriter rely on, and the main pipeline with    *)
(* its external collaborators (digest command, rewriter, summariser,       *)
(* speech synthesizer, encoder, uploader).                                 *)
(*                                                                         *)
(* Text is a sequence of one-character strings.                            *)
(***************************************************************************)
EXTENDS Integers, Sequences, FiniteSets, TLC

\* ------------------------------------------------------------------ bounds
MaxLen == 6
MaxRuns == 2
MaxDay == 2

\* ------------------------------------------------------- character classes
NL == "\n"
CR == "\r"

\* str.isspace() / regex \s, restricted to the characters the model uses
Whitespace == {" ", "\t", NL, CR}

IsSpace(c) == c \in Whitespace

AsciiLetters ==
  {"A","B","C","D","E","F","G","H","I","J","K","L","M",
   "N","O","P","Q","R","S","T","U","V","W","X","Y","Z",
   "a","b","c","d","e","f","g","h","i","j","k","l","m",
   "n","o","p","q","r","s","t","u","v","w","x","y","z"}

Digits == {"0","1","2","3","4","5","6","7","8","9"}

\* the character class [A-Za-z0-9] with the digits left out
IsSpeakerChar_LettersOnly(c) == c \in AsciiLetters

\* the character class [A-Za-z0-9] widened by a punctuation mark
IsSpeakerChar_WithPunct(c) == c \in AsciiLetters \cup Digits \cup {","}

\* the character class [A-Za-z0-9] of the speaker pattern
IsSpeakerChar(c) == c \in AsciiLetters \cup Digits

\* ------------------------------------------------------------ str helpers
RECURSIVE LStrip(_)
LStrip(s) ==
  IF s = <<>> THEN <<>>
  ELSE IF IsSpace(Head(s)) THEN LStrip(Tail(s)) ELSE s

RECURSIVE RStrip(_)
RStrip(s) ==
  IF s = <<>> THEN <<>>
  ELSE IF IsSpace(s[Len(s)]) THEN RStrip(SubSeq(s, 1, Len(s) - 1)) ELSE s

\* str.strip()
Strip(s) == RStrip(LStrip(s))

\* index of the first occurrence of c in s at or after position from, 0 if none
RECURSIVE IndexFrom(_, _, _)
IndexFrom(s, c, from) ==
  IF from > Len(s) THEN 0
  ELSE IF s[from] = c THEN from ELSE IndexFrom(s, c, from + 1)

\* str.split('\n'): always at least one piece
RECURSIVE SplitLines(_)
SplitLines(s) ==
  LET p == IndexFrom(s, NL, 1) IN
  IF p = 0 THEN <<s>>
  ELSE <<SubSeq(s, 1, p - 1)>> \o SplitLines(SubSeq(s, p + 1, Len(s)))

\* length of the longest prefix of s whose characters all satisfy the class
RECURSIVE SpeakerPrefixLen(_)
SpeakerPrefixLen(s) ==
  IF s = <<>> THEN 0
  ELSE IF IsSpeakerChar(Head(s)) THEN 1 + SpeakerPrefixLen(Tail(s)) ELSE 0

RECURSIVE SpacePrefixLen(_)
SpacePrefixLen(s) ==
  IF s = <<>> THEN 0
  ELSE IF IsSpace(Head(s)) THEN 1 + SpacePrefixLen(Tail(s)) ELSE 0

\* ------------------------------------------------------- the speaker regex
\* re.match(r'^([A-Za-z0-9]+):\s*(.+)$', line) with the content group
\* required to hold at least minContent characters.  The first group is
\* greedy and cannot give characters back (the next character must be the
\* colon); \s* is greedy and gives one character back when it has eaten the
\* whole rest, so that the content group is not empty; '.' excludes newline.
MatchWith(line, minContent) ==
  LET n == SpeakerPrefixLen(line)
      rest == SubSeq(line, n + 2, Len(line))
      k == SpacePrefixLen(rest)
      eaten == IF k = Len(rest) /\ k >= minContent THEN k - minContent ELSE k
      content == SubSeq(rest, eaten + 1, Len(rest))
  IN IF /\ n >= 1
        /\ Len(line) >= n + 1
        /\ line[n + 1] = ":"
        /\ Len(content) >= minContent
        /\ \A j \in 1..Len(content) : content[j] # NL
     THEN [matched |-> TRUE, speaker |-> SubSeq(line, 1, n), text |-> content]
     ELSE [matched |-> FALSE, speaker |-> <<>>, text |-> <<>>]

\* the pattern with (.*) in place of (.+)
SpeakerMatch_StarContent(line) == MatchWith(line, 0)

SpeakerMatch(line) == MatchWith(line, 1)

\* line = line.strip()
LineOf(raw) == Strip(raw)

\* turns.append({'speaker': speaker, 'text': text.strip()})
AppendTurn(ts, sp, tx) ==
  Append(ts, [speaker |-> sp, text |-> Strip(tx)])

\* the continuation with the separating space left out
ContinueText_NoSpace(old, line) == old \o line

\* turns[-1]['text'] += ' ' + line
ContinueText(old, line) == old \o <<" ">> \o line

\* the guard "if turns:" left out
CanContinue_Always(ts) == TRUE

\* if turns:
CanContinue(ts) == Len(ts) > 0

\* one iteration of the loop body, as a function of the turns so far;
\* raised is set when turns[-1] is evaluated on an empty list (IndexError)
ParseLine(ts, raw) ==
  LET line == LineOf(raw)
      m == SpeakerMatch(line)
  IN IF line = <<>> THEN [turns |-> ts, raised |-> FALSE, op |-> "blank"]
     ELSE IF m.matched
     THEN [turns |-> AppendTurn(ts, m.speaker, m.text), raised |-> FALSE,
           op |-> "match"]
     ELSE IF CanContinue(ts)
     THEN IF Len(ts) = 0
          THEN [turns |-> ts, raised |-> TRUE, op |-> "continue"]
          ELSE [turns |-> [ts EXCEPT ![Len(ts)].text = ContinueText(@, line)],
                raised |-> FALSE, op |-> "continue"]
     ELSE [turns |-> ts, raised |-> FALSE, op |-> "drop"]

\* lines = script.strip().split('\n')
ScriptLines(s) == SplitLines(Strip(s))

RECURSIVE ParseFrom(_, _)
ParseFrom(ts, ls) ==
  IF ls = <<>> THEN ts
  ELSE LET r == ParseLine(ts, Head(ls)) IN
       IF r.raised THEN ts ELSE ParseFrom(r.turns, Tail(ls))

\* the function as a whole
parse_script_to_turns(s) == ParseFrom(<<>>, ScriptLines(s))

\* ------------------------------------------------------------ clean-up regexes
StartsWith(s, pre) == Len(s) >= Len(pre) /\ SubSeq(s, 1, Len(pre)) = pre

RECURSIVE NonSpacePrefixLen(_)
NonSpacePrefixLen(s) ==
  IF s = <<>> THEN 0
  ELSE IF IsSpace(Head(s)) THEN 0 ELSE 1 + NonSpacePrefixLen(Tail(s))

RECURSIVE HashPrefixLen(_)
HashPrefixLen(s) ==
  IF s = <<>> THEN 0
  ELSE IF Head(s) = "#" THEN 1 + HashPrefixLen(Tail(s)) ELSE 0

\* re.sub(r'\[([^\]]+)\]\([^\)]+\)', r'\1', text)
RECURSIVE SubLinks(_)
SubLinks(s) ==
  IF s = <<>> THEN <<>>
  ELSE LET j == IF Head(s) = "[" THEN IndexFrom(s, "]", 2) ELSE 0
           k == IF j > 2 /\ Len(s) > j /\ s[j + 1] = "("
                THEN IndexFrom(s, ")", j + 2) ELSE 0
       IN IF k > j + 2
          THEN SubSeq(s, 2, j - 1) \o SubLinks(SubSeq(s, k + 1, Len(s)))
          ELSE <<Head(s)>> \o SubLinks(Tail(s))

\* re.sub(r'https?://\S+', '', text)
RECURSIVE SubUrls(_)
SubUrls(s) ==
  IF s = <<>> THEN <<>>
  ELSE LET a == IF StartsWith(s, <<"h","t","t","p","s",":","/","/">>) THEN 8
                ELSE IF StartsWith(s, <<"h","t","t","p",":","/","/">>) THEN 7
                ELSE 0
           rest == SubSeq(s, a + 1, Len(s))
           n == NonSpacePrefixLen(rest)
       IN IF a > 0 /\ n >= 1
          THEN SubUrls(SubSeq(rest, n + 1, Len(rest)))
          ELSE <<Head(s)>> \o SubUrls(Tail(s))

\* re.sub(r'\*\*([^\*]+)\*\*', r'\1', text)
RECURSIVE SubBold(_)
SubBold(s) ==
  IF s = <<>> THEN <<>>
  ELSE LET j == IF StartsWith(s, <<"*","*">>) THEN IndexFrom(s, "*", 3) ELSE 0
       IN IF j > 3 /\ Len(s) > j /\ s[j + 1] = "*"
          THEN SubSeq(s, 3, j - 1) \o SubBold(SubSeq(s, j + 2, Len(s)))
          ELSE <<Head(s)>> \o SubBold(Tail(s))

\* re.sub(r'\*([^\*]+)\*', r'\1', text)
RECURSIVE SubItalic(_)
SubItalic(s) ==
  IF s = <<>> THEN <<>>
  ELSE LET j == IF Head(s) = "*" THEN IndexFrom(s, "*", 2) ELSE 0
       IN IF j > 2
          THEN SubSeq(s, 2, j - 1) \o SubItalic(SubSeq(s, j + 1, Len(s)))
          ELSE <<Head(s)>> \o SubItalic(Tail(s))

\* re.sub(r'^#+\s+', '', text, flags=re.MULTILINE); atStart: the position is
\* the start of the text or follows a newline
RECURSIVE SubHeaders(_, _)
SubHeaders(s, atStart) ==
  IF s = <<>> THEN <<>>
  ELSE LET h == IF atStart THEN HashPrefixLen(s) ELSE 0
           w == SpacePrefixLen(SubSeq(s, h + 1, Len(s)))
       IN IF h >= 1 /\ w >= 1
          THEN SubHeaders(SubSeq(s, h + w + 1, Len(s)), s[h + w] = NL)
          ELSE <<Head(s)>> \o SubHeaders(Tail(s), Head(s) = NL)

clean_markdown_for_tts(t) ==
  Strip(SubHeaders(SubItalic(SubBold(SubUrls(SubLinks(t)))), TRUE))

\* universal-newline translation of text-mode reads (subprocess text=True,
\* open(..., 'r')): "\r\n" and "\r" become "\n"
RECURSIVE UniversalNewlines(_)
UniversalNewlines(s) ==
  IF s = <<>> THEN <<>>
  ELSE IF Head(s) = CR
  THEN IF Len(s) >= 2 /\ s[2] = NL
       THEN <<NL>> \o UniversalNewlines(SubSeq(s, 3, Len(s)))
       ELSE <<NL>> \o UniversalNewlines(Tail(s))
  ELSE <<Head(s)>> \o UniversalNewlines(Tail(s))

\* ------------------------------------------------------------------ state
VARIABLES
  \* parse_script_to_turns
  script,          \* the argument
  lines,           \* script.strip().split('\n')
  idx,             \* position of the for loop in lines (next line to take)
  turns,           \* the list being built
  raised,          \* an exception left the function
  ppc,             \* "idle", "start", "loop", "done", "raised"
  op,              \* branch taken by the last loop iteration
  \* the world around main
  today,           \* the calendar date datetime.now() reports
  digestFiles,     \* date -> content of ~/Automattic/Daily Digests/<date>.md
  rewrittenFiles,  \* date -> content of rewritten_digests/<date>.txt
  audioFiles,      \* existing files of generated_audio/*.mp3, as <<date, title>>
  \* one run of the process
  pc,              \* position of the run
  runs,            \* runs started so far
  today_str,       \* main's today_str
  text,            \* main's text
  rewritten_text,  \* main's rewritten_text
  title,           \* main's title
  audio_file,      \* main's audio_file
  calls,           \* external calls made by this run, in order
  failures,        \* external calls of this run that failed or timed out
  ttsInput,        \* the text handed to the synthesizer by this run
  lastRewrite,     \* how rewrite_digest_with_claude returned in this run
  encoded,         \* the encoder returned 0 in this run
  uploadResult,    \* how the upload went in this run
  exitStatus       \* -1 while running, else the exit status of the process

parserVars == <<script, lines, idx, turns, raised, ppc, op>>

worldVars == <<today, digestFiles, rewrittenFiles, audioFiles>>

runVars == <<pc, runs, today_str, text, rewritten_text, title, audio_file,
             calls, failures, ttsInput, lastRewrite, encoded, uploadResult,
             exitStatus>>

vars == <<parserVars, worldVars, runVars>>

\* ------------------------------------------------------- parser, stepwise
\* turns = []; lines = script.strip().split('\n')
ParseBegin ==
  /\ ppc = "start"
  /\ lines' = ScriptLines(script)
  /\ idx' = 1
  /\ turns' = <<>>
  /\ ppc' = "loop"
  /\ op' = "begin"
  /\ UNCHANGED <<script, raised, worldVars, runVars>>

\* one iteration of "for line in lines" taking the given branch
ParseIteration(branch) ==
  /\ ppc = "loop"
  /\ idx <= Len(lines)
  /\ LET r == ParseLine(turns, lines[idx]) IN
     /\ r.op = branch
     /\ turns' = r.turns
     /\ raised' = r.raised
     /\ ppc' = IF r.raised THEN "raised" ELSE "loop"
     /\ op' = r.op
  /\ idx' = idx + 1
  /\ UNCHANGED <<script, lines, worldVars, runVars>>

\* if not line: continue
ParseBlank == ParseIteration("blank")

\* if match: turns.append(...)
ParseMatch == ParseIteration("match")

\* else: if turns: turns[-1]['text'] += ' ' + line
ParseContinue == ParseIteration("continue")

\* else: no turn yet, the line is dropped
ParseDrop == ParseIteration("drop")

\* return turns
ParseReturn ==
  /\ ppc = "loop"
  /\ idx > Len(lines)
  /\ ppc' = "done"
  /\ op' = "return"
  /\ UNCHANGED <<script, lines, idx, turns, raised, worldVars, runVars>>

ParseNext ==
  \/ ParseBegin
  \/ ParseBlank
  \/ ParseMatch
  \/ ParseContinue
  \/ ParseDrop
  \/ ParseReturn

\* ---------------------------------------------------------- parser inputs
Alphabet == {"A", "1", " ", ":", ",", NL}

BoundedScripts == UNION {[1..n -> Alphabet] : n \in 0..MaxLen}

Ex_TwoTurns == <<"A",":"," ","x",NL,"B",":"," ","y">>

Ex_Continuation == <<"A",":"," ","h","e","l","l","o",NL,"w","o","r","l","d">>

Ex_BlankLines == <<"A",":"," ","x",NL,NL,NL,"B",":"," ","y">>

Ex_LeadingDropped == <<"n","o","t"," ","a"," ","t","u","r","n",NL,"A",":"," ","x">>

Ex_NoteLine == <<"N","o","t","e",":"," ","w","a","t","c","h"," ","t","h","i","s">>

Ex_Note == <<"A",":"," ","x",NL>> \o Ex_NoteLine

Ex_CrLf == <<"A",":"," ","x"," ",CR,NL,"B",":","y">>

Ex_Whitespace == <<" ",NL,"\t",NL," ">>

Ex_PunctPrefix == <<"A",":"," ","x",NL,"b",",","c",":"," ","y">>

ExampleScripts ==
  {Ex_TwoTurns, Ex_Continuation, Ex_BlankLines, Ex_LeadingDropped, Ex_Note,
   Ex_CrLf, Ex_Whitespace, Ex_PunctPrefix}

IdleRun ==
  /\ today = 1
  /\ digestFiles = <<>>
  /\ rewrittenFiles = <<>>
  /\ audioFiles = {}
  /\ pc = "idle"
  /\ runs = 0
  /\ today_str = 0
  /\ text = <<>>
  /\ rewritten_text = <<>>
  /\ title = "none"
  /\ audio_file = <<0, "none">>
  /\ calls = <<>>
  /\ failures = <<>>
  /\ ttsInput = <<>>
  /\ lastRewrite = "none"
  /\ encoded = FALSE
  /\ uploadResult = "none"
  /\ exitStatus = -1

ParseInit ==
  /\ script \in BoundedScripts \cup ExampleScripts
  /\ lines = <<>>
  /\ idx = 1
  /\ turns = <<>>
  /\ raised = FALSE
  /\ ppc = "start"
  /\ op = "none"
  /\ IdleRun

ParseSpec == ParseInit /\ [][ParseNext]_vars

\* ------------------------------------------------------- pipeline inputs
Digest_Links == <<"#"," ","[","A","]","(","1",")">>

Digest_Speaker == <<"A",":"," ","*","x","*">>

\* contents the digest command can save to the digest file (empty included)
DigestTexts == {<<>>, Digest_Links, Digest_Speaker}

Stdout_Script == <<"A",":"," ","x",CR,NL,"1",":"," ","y",NL>>

Stdout_Prose == <<"A"," ","A">>

\* bytes the rewriter command can print
RewriterStdouts == {Stdout_Script, Stdout_Prose}

FallbackTitle == "Work Digest"

\* ------------------------------------------------------------ run helpers
\* the process ends: sys.exit(status), an uncaught exception (status 1) or a
\* normal return of main (status 0)
Exit(status) ==
  /\ pc' = "exited"
  /\ exitStatus' = status

Failure(step, kind, fallback, at) ==
  [step |-> step, kind |-> kind, fallback |-> fallback, at |-> at]

Exists(files, name) == name \in DOMAIN files

Store(files, name, content) ==
  [n \in DOMAIN files \cup {name} |-> IF n = name THEN content ELSE files[n]]

\* ------------------------------------------------------------ environment
\* midnight passes
Tick ==
  /\ today < MaxDay
  /\ today' = today + 1
  /\ UNCHANGED <<parserVars, digestFiles, rewrittenFiles, audioFiles, runVars>>

\* ------------------------------------------------------------ the process
\* the module level: load_dotenv and the two checks of the environment
\* variables, then asyncio.run(main())
Launch ==
  /\ pc \in {"idle", "exited"}
  /\ runs < MaxRuns
  /\ runs' = runs + 1
  /\ today_str' = 0
  /\ text' = <<>>
  /\ rewritten_text' = <<>>
  /\ title' = "none"
  /\ audio_file' = <<0, "none">>
  /\ calls' = <<>>
  /\ failures' = <<>>
  /\ ttsInput' = <<>>
  /\ lastRewrite' = "none"
  /\ encoded' = FALSE
  /\ uploadResult' = "none"
  /\ \E configured \in BOOLEAN :
       IF configured
       THEN pc' = "main" /\ exitStatus' = -1
       ELSE Exit(1)
  /\ UNCHANGED <<parserVars, worldVars>>

\* main: today_str, digest_file_path, the first os.path.exists
main_check_digest ==
  /\ pc = "main"
  /\ today_str' = today
  /\ IF Exists(digestFiles, today)
     THEN text' = digestFiles[today] /\ pc' = "check_text"
     ELSE text' = <<>> /\ pc' = "gen"
  /\ UNCHANGED <<parserVars, worldVars, runs, rewritten_text, title,
                 audio_file, calls, failures, ttsInput, lastRewrite, encoded,
                 uploadResult, exitStatus>>

\* the outcomes of get_digest_text that end the process

\* the CalledProcessError and FileNotFoundError handlers returning instead
\* of exiting
DigestOutcomeExits_PluginOnly(outcome) == outcome = "plugin_missing"

\* sys.exit(1) for a missing plugin directory, CalledProcessError and
\* FileNotFoundError; TimeoutExpired returns ""
DigestOutcomeExits(outcome) == outcome \in {"plugin_missing", "error", "notfound"}

\* get_digest_text; the command saves the digest file itself, which it may
\* or may not have done when it ends, fails or is timed out
get_digest_text ==
  /\ pc = "gen"
  /\ \E outcome \in {"plugin_missing", "ok", "timeout", "error", "notfound"},
        saved \in BOOLEAN, content \in DigestTexts :
       /\ saved => outcome \in {"ok", "timeout", "error"}
       /\ digestFiles' = IF saved THEN Store(digestFiles, today, content)
                         ELSE digestFiles
       /\ calls' = IF outcome = "plugin_missing" THEN calls
                   ELSE Append(calls, "digest")
       /\ failures' = IF outcome \in {"timeout", "error", "notfound"}
                      THEN Append(failures,
                                  Failure("digest", outcome, FALSE, Len(calls')))
                      ELSE failures
       /\ IF DigestOutcomeExits(outcome)
          THEN Exit(1)
          ELSE pc' = "reread" /\ UNCHANGED exitStatus
  /\ UNCHANGED <<parserVars, today, rewrittenFiles, audioFiles, runs,
                 today_str, text, rewritten_text, title, audio_file, ttsInput,
                 lastRewrite, encoded, uploadResult>>

\* main: the second os.path.exists, after get_digest_text returned
main_reread_digest ==
  /\ pc = "reread"
  /\ IF Exists(digestFiles, today_str)
     THEN /\ text' = digestFiles[today_str]
          /\ pc' = "check_text"
          /\ UNCHANGED exitStatus
     ELSE /\ text' = text
          /\ Exit(1)
  /\ UNCHANGED <<parserVars, worldVars, runs, today_str, rewritten_text, title,
                 audio_file, calls, failures, ttsInput, lastRewrite, encoded,
                 uploadResult>>

\* main: if not text: sys.exit(1)
main_check_text ==
  /\ pc = "check_text"
  /\ IF text = <<>>
     THEN Exit(1)
     ELSE pc' = "rewrite" /\ UNCHANGED exitStatus
  /\ UNCHANGED <<parserVars, worldVars, runs, today_str, text, rewritten_text,
                 title, audio_file, calls, failures, ttsInput, lastRewrite,
                 encoded, uploadResult>>

\* the check of the rewritten file left out: the command is always run
CacheHit_Never(files, date) == FALSE

\* os.path.exists(rewritten_file)
CacheHit(files, date) == Exists(files, date)

\* rewrite_digest_with_claude(text)
rewrite_digest_with_claude ==
  /\ pc = "rewrite"
  /\ IF CacheHit(rewrittenFiles, today)
     THEN /\ rewritten_text' = UniversalNewlines(rewrittenFiles[today])
          /\ lastRewrite' = "hit"
          /\ pc' = "summary"
          /\ UNCHANGED <<rewrittenFiles, calls, failures, exitStatus>>
     ELSE \E outcome \in {"ok", "error", "notfound", "oserror"},
             stdout \in RewriterStdouts :
            /\ calls' = Append(calls, "rewriter")
            /\ CASE outcome = "ok" ->
                      /\ rewritten_text' = Strip(UniversalNewlines(stdout))
                      /\ rewrittenFiles' = Store(rewrittenFiles, today,
                                                 Strip(UniversalNewlines(stdout)))
                      /\ lastRewrite' = "ok"
                      /\ pc' = "summary"
                      /\ UNCHANGED <<failures, exitStatus>>
                 [] outcome \in {"error", "notfound"} ->
                      /\ rewritten_text' = clean_markdown_for_tts(text)
                      /\ rewrittenFiles' = rewrittenFiles
                      /\ lastRewrite' = "fallback"
                      /\ failures' = Append(failures,
                           Failure("rewriter", outcome, TRUE, Len(calls')))
                      /\ pc' = "summary"
                      /\ UNCHANGED exitStatus
                 [] outcome = "oserror" ->
                      /\ failures' = Append(failures,
                           Failure("rewriter", outcome, FALSE, Len(calls')))
                      /\ Exit(1)
                      /\ UNCHANGED <<rewritten_text, rewrittenFiles, lastRewrite>>
  /\ UNCHANGED <<parserVars, today, digestFiles, audioFiles, runs,
                 today_str, text, title, audio_file, ttsInput, encoded,
                 uploadResult>>

\* generate_summary_from_digest(text), then main's date_str, safe_title and
\* audio_file
generate_summary_from_digest ==
  /\ pc = "summary"
  /\ \E outcome \in {"ok", "error", "timeout", "notfound", "oserror"} :
       /\ calls' = Append(calls, "summary")
       /\ CASE outcome = "ok" ->
                 /\ title' = "Summary"
                 /\ audio_file' = <<today, "Summary">>
                 /\ pc' = "synth"
                 /\ UNCHANGED <<failures, exitStatus>>
            [] outcome \in {"error", "timeout", "notfound"} ->
                 /\ title' = FallbackTitle
                 /\ audio_file' = <<today, FallbackTitle>>
                 /\ failures' = Append(failures,
                      Failure("summary", outcome, TRUE, Len(calls')))
                 /\ pc' = "synth"
                 /\ UNCHANGED exitStatus
            [] outcome = "oserror" ->
                 /\ failures' = Append(failures,
                      Failure("summary", outcome, FALSE, Len(calls')))
                 /\ Exit(1)
                 /\ UNCHANGED <<title, audio_file>>
  /\ UNCHANGED <<parserVars, worldVars, runs, today_str, text, rewritten_text,
                 ttsInput, lastRewrite, encoded, uploadResult>>

\* the text handed to the synthesizer is the speaker lines of the parsed turns
RECURSIVE RenderTurns(_)
RenderTurns(ts) ==
  IF ts = <<>> THEN <<>>
  ELSE Head(ts).speaker \o <<":", " ">> \o Head(ts).text
       \o (IF Len(ts) > 1 THEN <<NL>> ELSE <<>>) \o RenderTurns(Tail(ts))

SynthInput_Parsed(rewritten) == RenderTurns(parse_script_to_turns(rewritten))

\* await generate_audio(rewritten_text, audio_file): the text argument
SynthInput(rewritten) == rewritten

\* the two sys.exit(1) after the request left out
SynthOutcomeExits_ApiErrorOnly(outcome) == outcome = "api_error"

\* generate_audio ends the process when the request raises (re-raised, then
\* the outer handler), when the response has no parts and when no part
\* carries audio data
SynthOutcomeExits(outcome) == outcome \in {"api_error", "no_parts", "no_audio"}

\* generate_audio, first half: the request to the speech API up to the saved
\* PCM data (the temporary .pcm file is not part of the state)
generate_audio_request ==
  /\ pc = "synth"
  /\ calls' = Append(calls, "tts")
  /\ ttsInput' = SynthInput(rewritten_text)
  /\ \E outcome \in {"audio", "api_error", "no_parts", "no_audio"} :
       IF outcome = "audio"
       THEN /\ pc' = "encode"
            /\ UNCHANGED <<failures, exitStatus>>
       ELSE /\ failures' = Append(failures,
                 Failure("tts", outcome, FALSE, Len(calls')))
            /\ IF SynthOutcomeExits(outcome)
               THEN Exit(1)
               ELSE pc' = "upload_check" /\ UNCHANGED exitStatus
  /\ UNCHANGED <<parserVars, today, digestFiles, rewrittenFiles, audioFiles,
                 runs, today_str, text, rewritten_text, title, audio_file,
                 lastRewrite, encoded, uploadResult>>

\* generate_audio, second half: ffmpeg; a non-zero return code is printed and
\* the function returns, an encoder that cannot be started raises and the
\* handler of generate_audio exits
generate_audio_encode ==
  /\ pc = "encode"
  /\ calls' = Append(calls, "ffmpeg")
  /\ \E outcome \in {"ok", "nonzero", "notfound"}, leftOutput \in BOOLEAN :
       CASE outcome = "ok" ->
              /\ leftOutput
              /\ audioFiles' = audioFiles \cup {audio_file}
              /\ encoded' = TRUE
              /\ pc' = "upload_check"
              /\ UNCHANGED <<failures, exitStatus>>
         [] outcome = "nonzero" ->
              /\ audioFiles' = IF leftOutput THEN audioFiles \cup {audio_file}
                               ELSE audioFiles
              /\ failures' = Append(failures,
                   Failure("ffmpeg", outcome, FALSE, Len(calls')))
              /\ pc' = "upload_check"
              /\ UNCHANGED <<encoded, exitStatus>>
         [] outcome = "notfound" ->
              /\ ~leftOutput
              /\ failures' = Append(failures,
                   Failure("ffmpeg", outcome, FALSE, Len(calls')))
              /\ Exit(1)
              /\ UNCHANGED <<audioFiles, encoded>>
  /\ UNCHANGED <<parserVars, today, digestFiles, rewrittenFiles, runs,
                 today_str, text, rewritten_text, title, audio_file, ttsInput,
                 lastRewrite, uploadResult>>

\* main: if os.path.exists(audio_file) ... else "skipping upload" and return
main_check_audio ==
  /\ pc = "upload_check"
  /\ IF audio_file \in audioFiles
     THEN pc' = "upload" /\ UNCHANGED exitStatus
     ELSE Exit(0)
  /\ UNCHANGED <<parserVars, worldVars, runs, today_str, text, rewritten_text,
                 title, audio_file, calls, failures, ttsInput, lastRewrite,
                 encoded, uploadResult>>

UploadOutcomes == {"ok", "launch_fail", "login_fail", "nav_fail", "select_fail"}

\* the failures of upload_to_pocket_casts that its try block covers: the
\* browser, context and page are created before the try
UploadFailureCaught(outcome) == outcome \in {"login_fail", "nav_fail", "select_fail"}

\* upload_to_pocket_casts(audio_file), then main returns
upload_to_pocket_casts ==
  /\ pc = "upload"
  /\ calls' = Append(calls, "browser")
  /\ \E outcome \in UploadOutcomes :
       /\ uploadResult' = outcome
       /\ IF outcome = "ok" \/ UploadFailureCaught(outcome)
          THEN Exit(0)
          ELSE Exit(1)
  /\ UNCHANGED <<parserVars, worldVars, runs, today_str, text, rewritten_text,
                 title, audio_file, failures, ttsInput, lastRewrite, encoded>>

Next ==
  \/ Tick
  \/ Launch
  \/ main_check_digest
  \/ get_digest_text
  \/ main_reread_digest
  \/ main_check_text
  \/ rewrite_digest_with_claude
  \/ generate_summary_from_digest
  \/ generate_audio_request
  \/ generate_audio_encode
  \/ main_check_audio
  \/ upload_to_pocket_casts

Init ==
  /\ script = <<>>
  /\ lines = <<>>
  /\ idx = 1
  /\ turns = <<>>
  /\ raised = FALSE
  /\ ppc = "idle"
  /\ op = "none"
  /\ IdleRun

Spec == Init /\ [][Next]_vars

\* ------------------------------------------------ vocabulary of the claims
TokenChars == AsciiLetters \cup Digits

IsBlank(l) == \A j \in 1..Len(l) : l[j] \in Whitespace

FirstColon(l) == IndexFrom(l, ":", 1)

\* the part of l before its first colon is a non-empty run of letters and digits
AcceptedPrefix(l) ==
  /\ FirstColon(l) > 1
  /\ \A j \in 1..(FirstColon(l) - 1) : l[j] \in TokenChars

\* <token>:<optional whitespace><content>, content non-empty
HasTurnForm(l) == AcceptedPrefix(l) /\ Len(l) > FirstColon(l)

\* <token>:<optional whitespace><content>, content with a non-whitespace character
HasSpokenTurnForm(l) ==
  /\ AcceptedPrefix(l)
  /\ \E j \in (FirstColon(l) + 1)..Len(l) : l[j] \notin Whitespace

ExpectedTurn(l) ==
  [speaker |-> SubSeq(l, 1, FirstColon(l) - 1),
   text |-> Strip(SubSeq(l, FirstColon(l) + 1, Len(l)))]

RECURSIVE ExpectedTurnsOf(_)
ExpectedTurnsOf(ls) ==
  IF ls = <<>> THEN <<>>
  ELSE IF IsBlank(Head(ls)) THEN ExpectedTurnsOf(Tail(ls))
  ELSE <<ExpectedTurn(Head(ls))>> \o ExpectedTurnsOf(Tail(ls))

RawLines(s) == SplitLines(s)

Turn(sp, tx) == [speaker |-> sp, text |-> tx]

\* the line the loop is about to take, trimmed
CurrentLine == Strip(lines[idx])

AtLine == ppc = "loop" /\ idx <= Len(lines)

\* ------------------------------------------------------------------ C1
\* C1 as stated: if every non-blank line of the input is <token>:<optional
\* whitespace><content> with an alphanumeric token and non-empty content, the
\* result has one turn per such line, in order, with speaker the token and
\* text the trimmed content.
C1_Original ==
  (/\ ppc = "done"
   /\ \A j \in 1..Len(RawLines(script)) :
        IsBlank(RawLines(script)[j]) \/ HasTurnForm(RawLines(script)[j]))
  => turns = ExpectedTurnsOf(RawLines(script))

\* C1 (amended): the same, for inputs whose lines' content holds at least one
\* non-whitespace character.
C1_OneTurnPerWellFormedLine ==
  (/\ ppc = "done"
   /\ \A j \in 1..Len(RawLines(script)) :
        IsBlank(RawLines(script)[j]) \/ HasSpokenTurnForm(RawLines(script)[j]))
  => turns = ExpectedTurnsOf(RawLines(script))

C1_Witness ==
  /\ ppc = "done"
  /\ script = Ex_TwoTurns
  /\ turns = <<Turn(<<"A">>, <<"x">>), Turn(<<"B">>, <<"y">>)>>

\* ------------------------------------------------------------------ C2
\* the effect C2 states for a line: continuation of the last turn, no new turn
TreatedAsContinuation(l) ==
  /\ ppc' = "loop"
  /\ Len(turns') = Len(turns)
  /\ \A j \in 1..Len(turns) : turns'[j].speaker = turns[j].speaker
  /\ turns'[Len(turns)].text = turns[Len(turns)].text \o <<" ">> \o l

\* C2 as stated: a line with a colon whose prefix is not a speaker token, the
\* line "Note: watch this" being one of them, following a matched turn is
\* continuation text and starts no new turn.
C2_Original ==
  [][(/\ AtLine
      /\ Len(turns) > 0
      /\ FirstColon(CurrentLine) > 0
      /\ (~AcceptedPrefix(CurrentLine) \/ CurrentLine = Ex_NoteLine))
     => TreatedAsContinuation(CurrentLine)]_vars

\* C2 (amended): a line with a colon whose part before the first colon is not
\* a non-empty run of letters and digits, following a matched turn, is
\* continuation text of that turn and starts no new turn.
C2_NonSpeakerColonLineContinues ==
  [][(/\ AtLine
      /\ Len(turns) > 0
      /\ FirstColon(CurrentLine) > 0
      /\ ~AcceptedPrefix(CurrentLine))
     => TreatedAsContinuation(CurrentLine)]_vars

C2_Witness ==
  /\ ppc = "done"
  /\ script = Ex_PunctPrefix
  /\ turns = <<Turn(<<"A">>, <<"x"," ","b",",","c",":"," ","y">>)>>

\* ------------------------------------------------------------------ C3
\* C3: at every point of the parse and in the result, every turn has a
\* non-empty text.
C3_TextNeverEmpty == \A j \in 1..Len(turns) : turns[j].text # <<>>

\* a finished parse that produced turns from an input with a speaker line that
\* has nothing after the colon
C3_Witness ==
  /\ ppc = "done"
  /\ Len(turns) > 0
  /\ \E j \in 1..Len(lines) :
       /\ Len(Strip(lines[j])) >= 2
       /\ Strip(lines[j])[Len(Strip(lines[j]))] = ":"
       /\ FirstColon(Strip(lines[j])) = Len(Strip(lines[j]))
       /\ AcceptedPrefix(Strip(lines[j]))

\* ------------------------------------------------------------------ C4
\* C4: a non-blank line that does not match the speaker pattern, when a turn
\* exists, appends one space and the trimmed line to the text of the last
\* turn and changes nothing else of the turns.
C4_ContinuationFrame ==
  [][(/\ AtLine
      /\ Len(turns) > 0
      /\ CurrentLine # <<>>
      /\ ~HasSpokenTurnForm(CurrentLine))
     => turns' = [turns EXCEPT ![Len(turns)].text = @ \o <<" ">> \o CurrentLine]]_vars

C4_Witness ==
  /\ ppc = "done"
  /\ script = Ex_Continuation
  /\ turns = <<Turn(<<"A">>, <<"h","e","l","l","o"," ","w","o","r","l","d">>)>>

\* ------------------------------------------------------------------ C5
\* no line before position n is a speaker line
NoSpeakerLineBefore(n) ==
  \A j \in 1..(n - 1) : ~HasSpokenTurnForm(Strip(lines[j]))

\* C5: no error is raised for any input, lines before the first speaker line
\* contribute nothing (the turns stay empty until a speaker line is taken),
\* and "not a turn\nA: x" yields exactly the turn {A, x}.
C5_NeverFailsAndDropsLeadingLines ==
  /\ ~raised
  /\ ppc # "raised"
  /\ (ppc \in {"loop", "done"} /\ NoSpeakerLineBefore(idx)) => turns = <<>>
  /\ (ppc = "done" /\ script = Ex_LeadingDropped)
       => turns = <<Turn(<<"A">>, <<"x">>)>>

\* a finished parse in which a non-blank leading line was dropped
C5_Witness ==
  /\ ppc = "done"
  /\ Len(turns) = 1
  /\ ~IsBlank(lines[1])
  /\ ~HasSpokenTurnForm(Strip(lines[1]))

\* ------------------------------------------- vocabulary, pipeline claims
Called(name) == \E j \in 1..Len(calls) : calls[j] = name

FailedWith(step, kinds) ==
  \E j \in 1..Len(failures) :
    failures[j].step = step /\ failures[j].kind \in kinds

AbortedAt(f) == pc = "exited" /\ exitStatus = 1 /\ Len(calls) = f.at

IsDigestTimeout(f) == f.step = "digest" /\ f.kind = "timeout"

IsEncoderReturnCode(f) == f.step = "ffmpeg" /\ f.kind = "nonzero"

\* ------------------------------------------------------------------ C6
\* C6: in a run where the digest file is absent (the only case in which the
\* generation command is run) and the generation command fails, the process
\* ends with a non-zero status and the rewriter, the synthesizer and the
\* uploader are not invoked.
C6_GenerationFailureStopsRun ==
  FailedWith("digest", {"error", "notfound"})
  => /\ pc = "exited"
     /\ exitStatus = 1
     /\ ~Called("rewriter")
     /\ ~Called("tts")
     /\ ~Called("browser")

C6_Witness ==
  /\ pc = "exited"
  /\ exitStatus = 1
  /\ FailedWith("digest", {"error"})
  /\ calls = <<"digest">>

\* ------------------------------------------------------------------ C7
\* C7 as stated: after an external call timed out or failed without a fallback
\* text, no later call is made and the run does not end with status zero.
C7_Original ==
  \A j \in 1..Len(failures) :
    ~failures[j].fallback
    => /\ Len(calls) = failures[j].at
       /\ pc = "exited" => exitStatus # 0

\* C7 (amended): a failure without fallback ends the run at once with status
\* 1 and no later call, except that a timed-out digest generation ends the run
\* only if the digest file is still absent afterwards, and that a non-zero
\* return code of the encoder does not end the run: the upload is attempted
\* only if the output file exists, and without it main returns with status 0.
C7_AbortingFailures ==
  \A j \in 1..Len(failures) :
    /\ (/\ ~failures[j].fallback
        /\ ~IsDigestTimeout(failures[j])
        /\ ~IsEncoderReturnCode(failures[j]))
       => AbortedAt(failures[j])
    /\ (/\ IsDigestTimeout(failures[j])
        /\ pc # "reread"
        /\ ~Exists(digestFiles, today_str))
       => AbortedAt(failures[j])
    /\ (IsEncoderReturnCode(failures[j]) /\ Called("browser"))
       => audio_file \in audioFiles
    /\ (IsEncoderReturnCode(failures[j]) /\ pc = "exited" /\ ~Called("browser"))
       => exitStatus = 0 /\ audio_file \notin audioFiles

C7_Witness ==
  /\ pc = "exited"
  /\ exitStatus = 1
  /\ FailedWith("tts", {"no_audio"})
  /\ calls[Len(calls)] = "tts"

\* ------------------------------------------------------------------ C8
\* C8: once the encoded audio file has been produced, a failure of any step
\* of the upload (browser launch, login, navigation, file selection) does not
\* abort the process: it ends with status zero and the audio file stays.
C8_UploadFailureNeverAborts ==
  (/\ pc = "exited"
   /\ encoded
   /\ uploadResult \in UploadOutcomes \ {"ok"})
  => exitStatus = 0 /\ audio_file \in audioFiles

\* ------------------------------------------------------------------ C9
\* C9 as stated: the synthesizer is never invoked with a script whose parsed
\* sequence of turns is empty.
C9_Original ==
  Called("tts") => parse_script_to_turns(ttsInput) # <<>>

\* C9 (amended): the synthesizer is invoked only after the rewrite and the
\* summary steps returned, it receives the rewritten text as returned,
\* unparsed, and main invokes it whenever it gets past the summary step,
\* whatever the turn parser would make of the text.
C9_SynthesizerGetsRawScript ==
  /\ Called("tts")
     => /\ ttsInput = rewritten_text
        /\ lastRewrite # "none"
        /\ Len(calls) >= 2
        /\ \E j \in 1..Len(calls) :
             calls[j] = "tts" /\ j > 1 /\ calls[j - 1] = "summary"
  /\ pc \in {"encode", "upload_check", "upload"} => Called("tts")

\* the synthesizer was invoked with a script in which the parser finds no turn
C9_Witness ==
  /\ Called("tts")
  /\ lastRewrite = "fallback"
  /\ ttsInput # <<>>
  /\ parse_script_to_turns(ttsInput) = <<>>

\* ------------------------------------------------------------------ C10
RewriteReturns == pc = "rewrite" /\ pc' = "summary"

\* C10: the store of rewritten scripts changes only by a successful rewriter
\* invocation adding the entry of a date that had none (the fallback text is
\* never stored), and a call on a date that has an entry returns the stored
\* text, runs no command and leaves the store as it is.
C10_IdempotentCache ==
  [][/\ rewrittenFiles' # rewrittenFiles
        => /\ ~Exists(rewrittenFiles, today)
           /\ rewrittenFiles' = Store(rewrittenFiles, today, rewritten_text')
           /\ lastRewrite' = "ok"
           /\ calls' = Append(calls, "rewriter")
     /\ (RewriteReturns /\ lastRewrite' = "fallback")
        => rewrittenFiles' = rewrittenFiles
     /\ (RewriteReturns /\ Exists(rewrittenFiles, today))
        => /\ rewritten_text' = rewrittenFiles[today]
           /\ calls' = calls
           /\ rewrittenFiles' = rewrittenFiles]_vars

\* a call answered from the store while the digest text passed differs from
\* the one the stored script was made from
C10_Witness ==
  /\ lastRewrite = "hit"
  /\ pc = "summary"
  /\ rewritten_text = Strip(UniversalNewlines(Stdout_Script))
  /\ text = Digest_Links
  /\ Exists(digestFiles, 1)
  /\ digestFiles[1] = Digest_Speaker

====
